---- MODULE Spec2Model ----
(***************************************************************************)
(* Model of loadBalancingSwitch.py: the LoadBalancer POX component, a      *)
(* virtual-IP round-robin load balancing switch driven by ARP requests.    *)
(*                                                                         *)
(* Addresses are modelled by their octets: IPAddr("10.0.0.n") is           *)
(* <<10,0,0,n>> and EthAddr("00:00:00:00:00:0n") is <<0,0,0,0,0,n>>.        *)
(* Python's None is <<>> for an address, NoPort for a port and NoConn for  *)
(* the connection.  Python lists are sequences; list index i is sequence   *)
(* position i + 1.                                                         *)
(***************************************************************************)
EXTENDS Integers, Sequences, FiniteSets, TLC

\* ---------------------------------------------------------------- bounds
\* hosts 10.0.0.1 .. 10.0.0.MaxHost may send ARP requests
MaxHost == 3
\* hosts 10.0.0.1 .. 10.0.0.MaxSwitchHost are wired to the modelled switch
MaxSwitchHost == 5

\* ------------------------------------------------------ protocol numbers
ARP_TYPE == 2054
IP_TYPE  == 2048
ICMP_PROTO == 1
REQUEST  == 1
REPLY    == 2
OFPP_NONE == 65535
BackendPortBase == 5
ClientPortBase == 1
NoConn == 0
NoPort == 0

IPAddr(n)  == <<10, 0, 0, n>>
EthAddr(n) == <<0, 0, 0, 0, 0, n>>
None == <<>>

\* ------------------------------------------- configuration (__init__)
virtualIP  == IPAddr(10)
serverIPs  == <<IPAddr(5), IPAddr(6)>>
serverMACs == <<EthAddr(5), EthAddr(6)>>

VARIABLES
  clientIPs,        \* self.clientIPs
  clientMACs,       \* self.clientMACs
  flowTable,        \* self.flowTable : NoConn or a connection
  nextServerIndex,  \* self.nextServerIndex
  event,            \* the event handled last
  out,              \* messages sent while handling it, in order
  raised,           \* the handler ended with an exception
  faulted,          \* some handler so far ended with an exception
  assigned,         \* per registry position: backend index of the rule
                    \* installed at registration, -1 when none was installed
  advances,         \* per registry position: cursor advances it caused
  linkHead,         \* the first message sent on the current connection
  threads,          \* per handler thread: its position in _handle_PacketIn
                    \* and its local variables (used when handlers interleave)
  flowRules,        \* the rule table of the switch (kept by SpecSwitch)
  regPort           \* per registry position: the ingress port of the
                    \* registering request (kept by SpecSwitch)

vars == <<clientIPs, clientMACs, flowTable, nextServerIndex, event, out,
          raised, faulted, assigned, advances, linkHead, threads,
          flowRules, regPort>>

\* what only the model of the switch records
switchVars == <<flowRules, regPort>>

\* ------------------------------------------------------------- helpers
Elems(s) == {s[i] : i \in 1..Len(s)}

\* list.index(x): the first position holding x, 0-based
ListIndex(s, x) == (CHOOSE i \in 1..Len(s) :
                      s[i] = x /\ \A j \in 1..(i-1) : s[j] # x) - 1

Count(s, x) == Cardinality({i \in 1..Len(s) : s[i] = x})

\* --------------------------------------------------------------- events
NoEvent == [kind |-> "Init", connection |-> NoConn, port |-> NoPort,
            type |-> 0, opcode |-> 0, hwsrc |-> None,
            protosrc |-> None, protodst |-> None]

HostAddrs == {IPAddr(h) : h \in 1..MaxHost}
\* ingress ports of the events, and the connection handle of the switch
Ports     == {1, 2}
Conns     == {1}

\* the hardware identities a host's requests may carry: its own, and for
\* host 10.0.0.1 also a second one (a replaced or spoofed interface)
HwAddrsOf(a) == {EthAddr(a[4])} \cup
                (IF a = IPAddr(1) THEN {EthAddr(9)} ELSE {})

ArpRequest(p, hw, src, dst) ==
  [kind |-> "PacketIn", connection |-> NoConn, port |-> p,
   type |-> ARP_TYPE, opcode |-> REQUEST, hwsrc |-> hw,
   protosrc |-> src, protodst |-> dst]

\* The events drawn: every host may ask for the virtual address, for any
\* host and for a backend, on any port; a backend asks for hosts and for the
\* other backend (never for the virtual address, so that only hosts
\* register).  A request carries the hardware identity of its sender.

\* requests of hosts: for the virtual address, a host or a backend
HostRequests ==
  UNION {{ArpRequest(p, hw, src, dst) :
            p \in Ports, hw \in HwAddrsOf(src),
            dst \in HostAddrs \cup {virtualIP, serverIPs[1]}} :
         src \in HostAddrs}

\* requests of a backend: for a host, or for the other backend
BackendRequests ==
  {ArpRequest(p, serverMACs[1], serverIPs[1], dst) :
     p \in Ports, dst \in HostAddrs \cup {serverIPs[2]}}

ArpRequests == HostRequests \cup BackendRequests

\* ARP replies: answers of a backend to the virtual address or to a host
ArpReplies ==
  [kind : {"PacketIn"}, connection : {NoConn}, port : {1},
   type : {ARP_TYPE}, opcode : {REPLY}, hwsrc : {EthAddr(1)},
   protosrc : {serverIPs[1]}, protodst : {virtualIP, IPAddr(1)}]

\* a frame that is not ARP carries no ARP fields
IpEvents ==
  [kind : {"PacketIn"}, connection : {NoConn}, port : Ports,
   type : {IP_TYPE}, opcode : {0}, hwsrc : {None},
   protosrc : {None}, protodst : {None}]

PacketEvents == ArpRequests \cup ArpReplies \cup IpEvents

UpEvent(c) == [kind |-> "ConnectionUp", connection |-> c, port |-> NoPort,
               type |-> 0, opcode |-> 0, hwsrc |-> None,
               protosrc |-> None, protodst |-> None]

\* ------------------------------------------------------------- messages
\* of.ofp_match(...): unspecified fields are wildcards (None)
Match(dlType, nwProto, inPort, nwSrc, nwDst) ==
  [dl_type |-> dlType, nw_proto |-> nwProto, in_port |-> inPort,
   nw_src |-> nwSrc, nw_dst |-> nwDst]

SetDst(a) == [act |-> "set_nw_dst", addr |-> a,    port |-> NoPort]
SetSrc(a) == [act |-> "set_nw_src", addr |-> a,    port |-> NoPort]
Output(p) == [act |-> "output",     addr |-> None, port |-> p]

NoMatch == Match(0, 0, NoPort, None, None)
NoFrame == [src |-> None, dst |-> None, type |-> 0, opcode |-> 0,
            hwsrc |-> None, hwdst |-> None, protosrc |-> None,
            protodst |-> None]

FlowMod(cmd, m, acts) ==
  [msg |-> "flow_mod", command |-> cmd, match |-> m, actions |-> acts,
   in_port |-> NoPort, data |-> NoFrame]

PacketOut(frame, acts) ==
  [msg |-> "packet_out", command |-> "NONE", match |-> NoMatch,
   actions |-> acts, in_port |-> OFPP_NONE, data |-> frame]

\* any ARP frame, request or not
IsArpAnyOpcode(e) == e.type = ARP_TYPE

\* line 35
IsArpRequest(e) == e.type = ARP_TYPE /\ e.opcode = REQUEST

\* line 39
VirtualSourceMAC(idx) == serverMACs[idx + 1]

\* line 40: packet.protosrc not in self.clientIPs
UnseenInMACs(addr, ips) == addr \notin Elems(clientMACs)

Unseen(addr, ips) == addr \notin Elems(ips)

\* the rule outputs to the port of the following backend
ForwardRuleNextPort(e, idx) ==
  FlowMod("ADD", Match(IP_TYPE, ICMP_PROTO, e.port, None, virtualIP),
          <<SetDst(serverIPs[idx + 1]),
            Output(((idx + 1) % Len(serverIPs)) + BackendPortBase)>>)

\* lines 43-45
ForwardRule(e, idx) ==
  FlowMod("ADD", Match(IP_TYPE, ICMP_PROTO, e.port, None, virtualIP),
          <<SetDst(serverIPs[idx + 1]), Output(idx + BackendPortBase)>>)

\* the backend of a forward rule, from its output port
RuleBackend(rule) == rule.actions[2].port - BackendPortBase

\* the cursor steps over a backend
AdvanceIndexSkip(idx) == (idx + 2) % Len(serverMACs)

\* line 50
AdvanceIndex(idx) == (idx + 1) % Len(serverMACs)

\* lines 56-58
ReverseRule(e, clientIndex) ==
  FlowMod("ADD", Match(IP_TYPE, ICMP_PROTO, e.port, e.protosrc, e.protodst),
          <<SetSrc(virtualIP), Output(clientIndex + ClientPortBase)>>)

\* lines 68-83
ArpReply(e, sourceIP, sourceMAC) ==
  PacketOut([src |-> sourceMAC, dst |-> e.hwsrc, type |-> ARP_TYPE,
             opcode |-> REPLY, hwsrc |-> sourceMAC, hwdst |-> e.hwsrc,
             protosrc |-> sourceIP, protodst |-> e.protosrc],
            <<Output(e.port)>>)

\* a flow_mod without command=: OFPFC_ADD
DeleteAllAsAdd == FlowMod("ADD", NoMatch, <<>>)

\* line 92
DeleteAll == FlowMod("DELETE", NoMatch, <<>>)

\* a message as sent: self.flowTable.send(msg)
Sent(c, m) == [conn |-> c, m |-> m]

\* linkHead after msgs were sent
HeadAfter(head, msgs) ==
  IF head = <<>> /\ msgs # <<>> THEN <<Head(msgs)>> ELSE head

\* ------------------------------------------------------ handler threads
Threads == {1, 2}

\* a thread outside the handler
Idle == [pc |-> "idle", e |-> NoEvent, sourceIP |-> None, sourceMAC |-> None,
         clientIndex |-> 0, msg |-> FlowMod("ADD", NoMatch, <<>>), k |-> 0]

\* ---------------------------------------------------------------- Init
Init ==
  /\ threads = [t \in Threads |-> Idle]
  /\ flowRules = {}
  /\ regPort = <<>>
  /\ clientIPs = <<>>
  /\ clientMACs = <<>>
  /\ flowTable = NoConn
  /\ nextServerIndex = 0
  /\ event = NoEvent
  /\ out = <<>>
  /\ raised = FALSE
  /\ faulted = FALSE
  /\ assigned = <<>>
  /\ advances = <<>>
  /\ linkHead = <<>>

\* the handler sends its messages in the opposite order
FinishReversed(msgs) ==
  /\ out' = [i \in 1..Len(msgs) |->
               Sent(flowTable, msgs[Len(msgs) + 1 - i])]
  /\ raised' = FALSE
  /\ linkHead' = HeadAfter(linkHead, out')
  /\ UNCHANGED <<faulted, flowTable>>

\* the handler returns having sent msgs
Finish(msgs) ==
  /\ out' = [i \in 1..Len(msgs) |-> Sent(flowTable, msgs[i])]
  /\ raised' = FALSE
  /\ linkHead' = HeadAfter(linkHead, out')
  /\ UNCHANGED <<faulted, flowTable>>

\* self.flowTable.send on None: AttributeError ends the handler
Raise ==
  /\ out' = <<>>
  /\ raised' = TRUE
  /\ faulted' = TRUE
  /\ UNCHANGED <<linkHead, flowTable>>

\* lines 37-50 and 68-84
ClientToVirtual(e) ==
  LET sourceIP  == virtualIP
      sourceMAC == VirtualSourceMAC(nextServerIndex)
  IN  IF Unseen(e.protosrc, clientIPs)
      THEN /\ clientIPs' = Append(clientIPs, e.protosrc)
           /\ clientMACs' = Append(clientMACs, e.hwsrc)
           /\ IF flowTable = NoConn
              THEN /\ Raise
                   /\ assigned' = Append(assigned, -1)
                   /\ advances' = Append(advances, 0)
                   /\ UNCHANGED nextServerIndex
              ELSE /\ nextServerIndex' = AdvanceIndex(nextServerIndex)
                   /\ assigned' = Append(assigned,
                                       RuleBackend(ForwardRule(e, nextServerIndex)))
                   /\ advances' = Append(advances, 1)
                   /\ Finish(<<ForwardRule(e, nextServerIndex),
                               ArpReply(e, sourceIP, sourceMAC)>>)
      ELSE /\ UNCHANGED <<clientIPs, clientMACs, nextServerIndex,
                          assigned, advances>>
           /\ IF flowTable = NoConn
              THEN Raise
              ELSE Finish(<<ArpReply(e, sourceIP, sourceMAC)>>)

\* the lookup also registers the requester
BackendToClientRegisters(e) ==
  LET clientIndex == ListIndex(clientIPs, e.protodst)
      sourceIP    == e.protodst
      sourceMAC   == clientMACs[clientIndex + 1]
  IN  /\ IF e.protosrc \in Elems(clientIPs)
         THEN UNCHANGED <<clientIPs, clientMACs, assigned, advances>>
         ELSE /\ clientIPs' = Append(clientIPs, e.protosrc)
              /\ clientMACs' = Append(clientMACs, e.hwsrc)
              /\ assigned' = Append(assigned, -1)
              /\ advances' = Append(advances, 0)
      /\ UNCHANGED nextServerIndex
      /\ IF flowTable = NoConn
         THEN Raise
         ELSE Finish(<<ReverseRule(e, clientIndex),
                       ArpReply(e, sourceIP, sourceMAC)>>)

\* lines 52-59 and 68-84
BackendToClient(e) ==
  LET clientIndex == ListIndex(clientIPs, e.protodst)
      sourceIP    == e.protodst
      sourceMAC   == clientMACs[clientIndex + 1]
  IN  /\ UNCHANGED <<clientIPs, clientMACs, nextServerIndex,
                     assigned, advances>>
      /\ IF flowTable = NoConn
         THEN Raise
         ELSE Finish(<<ReverseRule(e, clientIndex),
                       ArpReply(e, sourceIP, sourceMAC)>>)

\* lines 64-65, and the implicit fall-through of line 35
Ignore ==
  /\ UNCHANGED <<clientIPs, clientMACs, nextServerIndex, assigned, advances>>
  /\ Finish(<<>>)

\* lines 30-84
HandlePacketIn(e) ==
  /\ event' = e
  /\ UNCHANGED threads
  /\ IF IsArpRequest(e)
     THEN IF e.protodst = virtualIP
          THEN ClientToVirtual(e)
          ELSE IF e.protodst \in Elems(clientIPs)
               THEN BackendToClient(e)
               ELSE Ignore
     ELSE Ignore

PacketIn ==
  \E e \in PacketEvents : HandlePacketIn(e) /\ UNCHANGED switchVars

\* lines 87-92
HandleConnectionUp(c) ==
  /\ event' = UpEvent(c)
  /\ flowTable' = c
  /\ out' = <<Sent(c, DeleteAll)>>
  /\ linkHead' = HeadAfter(<<>>, out')
  /\ raised' = FALSE
  /\ UNCHANGED <<clientIPs, clientMACs, nextServerIndex, faulted,
                 assigned, advances, threads>>

ConnectionUp ==
  \E c \in Conns : HandleConnectionUp(c) /\ UNCHANGED switchVars

Next == PacketIn \/ ConnectionUp

Spec == Init /\ [][Next]_vars

\* ------------------------------------------------ interleaved handlers
\* _handle_PacketIn run by several threads at once, one source line a step.
\* The class takes no lock, so between two lines of one handler the lines of
\* another may run.  out holds what the step sent, event the event of the
\* thread that stepped.

\* the events the interleaved handlers are given
ConcEvents ==
  {ArpRequest(1, EthAddr(1), IPAddr(1), virtualIP),
   ArpRequest(2, EthAddr(2), IPAddr(2), virtualIP),
   ArpRequest(1, serverMACs[1], serverIPs[1], IPAddr(1)),
   ArpRequest(1, serverMACs[1], serverIPs[1], serverIPs[2])}
  \cup {x \in IpEvents : x.port = 1}

Goto(t, label) == threads' = [threads EXCEPT ![t].pc = label]

\* the step of thread t sent msgs and the handler goes on at label
StepSent(t, msgs) ==
  /\ event' = threads[t].e
  /\ out' = [i \in 1..Len(msgs) |-> Sent(flowTable, msgs[i])]
  /\ raised' = FALSE
  /\ linkHead' = HeadAfter(linkHead, out')
  /\ UNCHANGED <<faulted, flowTable>>
  /\ UNCHANGED switchVars

\* the handler of thread t ends with an exception
StepRaise(t) ==
  /\ event' = threads[t].e
  /\ UNCHANGED switchVars
  /\ threads' = [threads EXCEPT ![t] = Idle]
  /\ Raise

Shared == <<clientIPs, clientMACs, nextServerIndex, assigned, advances>>

\* the event is delivered to thread t (line 34)
Begin(t) ==
  \E e \in ConcEvents :
    /\ threads[t].pc = "idle"
    /\ threads' = [threads EXCEPT ![t] = [Idle EXCEPT !.pc = "l35", !.e = e]]
    /\ StepSent(t, <<>>) /\ UNCHANGED Shared

\* line 35
L35(t) ==
  /\ threads[t].pc = "l35"
  /\ IF IsArpRequest(threads[t].e)
     THEN Goto(t, "l37")
     ELSE threads' = [threads EXCEPT ![t] = Idle]
  /\ StepSent(t, <<>>) /\ UNCHANGED Shared

\* line 37, and line 52 when the target is not the virtual address
L37(t) ==
  /\ threads[t].pc = "l37"
  /\ IF threads[t].e.protodst = virtualIP
     THEN Goto(t, "l38")
     ELSE IF threads[t].e.protodst \in Elems(clientIPs)
          THEN Goto(t, "l53")
          ELSE threads' = [threads EXCEPT ![t] = Idle]
  /\ StepSent(t, <<>>) /\ UNCHANGED Shared

\* lines 38-39
L38(t) ==
  /\ threads[t].pc = "l38"
  /\ threads' = [threads EXCEPT ![t].pc = "l40",
                                ![t].sourceIP = virtualIP,
                                ![t].sourceMAC =
                                  VirtualSourceMAC(nextServerIndex)]
  /\ StepSent(t, <<>>) /\ UNCHANGED Shared

\* line 40
L40(t) ==
  /\ threads[t].pc = "l40"
  /\ IF Unseen(threads[t].e.protosrc, clientIPs)
     THEN Goto(t, "l41")
     ELSE Goto(t, "l68")
  /\ StepSent(t, <<>>) /\ UNCHANGED Shared

\* line 41
L41(t) ==
  /\ threads[t].pc = "l41"
  /\ clientIPs' = Append(clientIPs, threads[t].e.protosrc)
  /\ assigned' = Append(assigned, -1)
  /\ advances' = Append(advances, 0)
  /\ threads' = [threads EXCEPT ![t].pc = "l42",
                                ![t].k = Len(clientIPs) + 1]
  /\ StepSent(t, <<>>) /\ UNCHANGED <<clientMACs, nextServerIndex>>

\* line 42
L42(t) ==
  /\ threads[t].pc = "l42"
  /\ clientMACs' = Append(clientMACs, threads[t].e.hwsrc)
  /\ Goto(t, "l43")
  /\ StepSent(t, <<>>)
  /\ UNCHANGED <<clientIPs, nextServerIndex, assigned, advances>>

\* lines 43-44
L43(t) ==
  /\ threads[t].pc = "l43"
  /\ threads' = [threads EXCEPT
       ![t].pc = "l45",
       ![t].msg = FlowMod("ADD",
                          Match(IP_TYPE, ICMP_PROTO, threads[t].e.port,
                                None, virtualIP),
                          <<SetDst(serverIPs[nextServerIndex + 1])>>)]
  /\ StepSent(t, <<>>) /\ UNCHANGED Shared

\* line 45
L45(t) ==
  /\ threads[t].pc = "l45"
  /\ threads' = [threads EXCEPT
       ![t].pc = "l46",
       ![t].msg.actions =
          Append(@, Output(nextServerIndex + BackendPortBase))]
  /\ StepSent(t, <<>>) /\ UNCHANGED Shared

\* line 46
L46(t) ==
  /\ threads[t].pc = "l46"
  /\ IF flowTable = NoConn
     THEN StepRaise(t) /\ UNCHANGED Shared
     ELSE /\ StepSent(t, <<threads[t].msg>>)
          /\ Goto(t, "l50")
          /\ assigned' = [assigned EXCEPT
                            ![threads[t].k] = RuleBackend(threads[t].msg)]
          /\ UNCHANGED <<clientIPs, clientMACs, nextServerIndex, advances>>

\* line 50
L50(t) ==
  /\ threads[t].pc = "l50"
  /\ nextServerIndex' = AdvanceIndex(nextServerIndex)
  /\ advances' = [advances EXCEPT ![threads[t].k] = @ + 1]
  /\ Goto(t, "l68")
  /\ StepSent(t, <<>>)
  /\ UNCHANGED <<clientIPs, clientMACs, assigned>>

\* lines 53-55: clientMACs may still lack the entry of a client whose
\* registration is between lines 41 and 42 (IndexError)
L53(t) ==
  /\ threads[t].pc = "l53"
  /\ LET clientIndex == ListIndex(clientIPs, threads[t].e.protodst)
     IN  IF clientIndex + 1 > Len(clientMACs)
         THEN StepRaise(t)
         ELSE /\ threads' = [threads EXCEPT
                   ![t].pc = "l56",
                   ![t].clientIndex = clientIndex,
                   ![t].sourceIP = threads[t].e.protodst,
                   ![t].sourceMAC = clientMACs[clientIndex + 1]]
              /\ StepSent(t, <<>>)
  /\ UNCHANGED Shared

\* lines 56-59
L56(t) ==
  /\ threads[t].pc = "l56"
  /\ IF flowTable = NoConn
     THEN StepRaise(t)
     ELSE /\ StepSent(t, <<ReverseRule(threads[t].e, threads[t].clientIndex)>>)
          /\ Goto(t, "l68")
  /\ UNCHANGED Shared

\* lines 68-84
L68(t) ==
  /\ threads[t].pc = "l68"
  /\ IF flowTable = NoConn
     THEN StepRaise(t)
     ELSE /\ StepSent(t, <<ArpReply(threads[t].e, threads[t].sourceIP,
                                    threads[t].sourceMAC)>>)
          /\ threads' = [threads EXCEPT ![t] = Idle]
  /\ UNCHANGED Shared

ThreadStep ==
  \E t \in Threads :
    \/ Begin(t) \/ L35(t) \/ L37(t) \/ L38(t) \/ L40(t) \/ L41(t) \/ L42(t)
    \/ L43(t) \/ L45(t) \/ L46(t) \/ L50(t) \/ L53(t) \/ L56(t) \/ L68(t)

NextConc == ThreadStep \/ ConnectionUp

SpecConc == Init /\ [][NextConc]_vars

\* ------------------------------------------------------ the switch side
\* The handlers together with the switch they program: its rule table, and
\* the port each registering request came in on.  Hosts and backends are
\* wired as the port arithmetic of lines 45 and 58 expects: backend i on
\* port i + 5 with address 10.0.0.(i + 5), and the MaxSwitchHost hosts on
\* the other ports from 1 on, the host on port p with address 10.0.0.p.
BackendPorts == {i + BackendPortBase : i \in 0..(Len(serverIPs) - 1)}

HostPorts == (1..(MaxSwitchHost + Len(serverIPs))) \ BackendPorts

AttachPort(a) == a[4]

SwitchHosts == {IPAddr(p) : p \in HostPorts}

\* hosts ask for the virtual address; backend 0 asks for the first and for
\* the last host
SwitchEvents ==
  {ArpRequest(AttachPort(a), EthAddr(a[4]), a, virtualIP) : a \in SwitchHosts}
  \cup {ArpRequest(BackendPortBase, serverMACs[1], serverIPs[1], a) :
          a \in {IPAddr(1), IPAddr(MaxSwitchHost + Len(serverIPs))}}

\* the table after the switch received message m: a delete without match
\* empties it, an add replaces the entry of the same match
TableAfter(table, m) ==
  IF m.msg # "flow_mod" THEN table
  ELSE IF m.command = "DELETE" THEN {}
  ELSE {r \in table : r.match # m.match}
         \cup {[match |-> m.match, actions |-> m.actions]}

RECURSIVE TableAfterAll(_, _)
TableAfterAll(table, msgs) ==
  IF msgs = <<>> THEN table
  ELSE TableAfterAll(TableAfter(table, Head(msgs).m), Tail(msgs))

Track ==
  /\ flowRules' = TableAfterAll(flowRules, out')
  /\ regPort' = IF Len(clientIPs') > Len(clientIPs)
                THEN Append(regPort, event'.port)
                ELSE regPort

SwitchPacketIn == \E e \in SwitchEvents : HandlePacketIn(e) /\ Track

SwitchConnectionUp == \E c \in Conns : HandleConnectionUp(c) /\ Track

NextSwitch == SwitchPacketIn \/ SwitchConnectionUp

SpecSwitch == Init /\ [][NextSwitch]_vars

\* ======================================================== properties
\* the last event was a packet event carrying an ARP request
ArpRequestSeen(e) ==
  e.kind = "PacketIn" /\ e.type = ARP_TYPE /\ e.opcode = REQUEST

\* the fields of an installed forward rule for backend i on ingress port p
IsForwardRuleFor(m, p, i) ==
  /\ m.msg = "flow_mod" /\ m.command = "ADD"
  /\ m.match = [dl_type |-> 2048, nw_proto |-> 1, in_port |-> p,
                nw_src |-> None, nw_dst |-> IPAddr(10)]
  /\ m.actions = <<[act |-> "set_nw_dst", addr |-> serverIPs[i + 1],
                    port |-> NoPort],
                   [act |-> "output", addr |-> None, port |-> i + 5]>>

\* the fields of an ARP reply answering e with (ip, mac) as its source
IsReplyTo(m, e, ip, mac) ==
  /\ m.msg = "packet_out"
  /\ m.data.type = ARP_TYPE /\ m.data.opcode = REPLY
  /\ m.data.protosrc = ip /\ m.data.hwsrc = mac /\ m.data.src = mac
  /\ m.data.protodst = e.protosrc
  /\ m.data.hwdst = e.hwsrc /\ m.data.dst = e.hwsrc
  /\ m.actions = <<[act |-> "output", addr |-> None, port |-> e.port]>>

\* C1: when no handler has failed (the switch was attached before the first
\* client registered), the client at registry position k (the k-th distinct
\* client address) got the forward rule of backend (k-1) mod N.
C1_RoundRobin ==
  ~faulted =>
    \A k \in 1..Len(clientIPs) : assigned[k] = (k - 1) % Len(serverIPs)

\* three clients registered with a switch attached: the third wrapped to 0
C1_Witness ==
  /\ ~faulted /\ Len(clientIPs) = 3
  /\ assigned[1] = 0 /\ assigned[2] = 1 /\ assigned[3] = 0

\* C2: every ARP request for the virtual address (from a new or a registered
\* client, in a run where no handler has failed) is answered with a reply
\* whose source is the virtual address and the hardware identity of the
\* backend assigned to the requester, addressed to the requester, sent out
\* of the ingress port.
C2_ReplyFromAssignedBackend ==
  [][(ArpRequestSeen(event') /\ event'.protodst = virtualIP /\ ~faulted')
       => /\ out' # <<>>
          /\ LET k == ListIndex(clientIPs', event'.protosrc) + 1
             IN  IsReplyTo(out'[Len(out')].m, event', virtualIP,
                           serverMACs[assigned'[k] + 1])]_vars

\* C3: a request for the virtual address from an already registered client
\* leaves its record, its position and its backend as they were, the registry
\* holds the address once, and the cursor has advanced exactly once for it.
C3_IdempotentRegistration ==
  [][(ArpRequestSeen(event') /\ event'.protodst = virtualIP
        /\ event'.protosrc \in Elems(clientIPs))
       => LET k == ListIndex(clientIPs, event'.protosrc) + 1
          IN  /\ clientIPs' = clientIPs /\ clientMACs' = clientMACs
              /\ assigned' = assigned
              /\ nextServerIndex' = nextServerIndex
              /\ Count(clientIPs', event'.protosrc) = 1
              /\ assigned'[k] \in 0..(Len(serverIPs) - 1)
              /\ advances'[k] = 1]_vars

\* C4: with a switch attached, the request of an unregistered client for the
\* virtual address on port p sends exactly the forward rule {IPv4 ICMP,
\* in_port p, dst virtual} -> [set dst to backend i, output i + 5] with i the
\* cursor before the event, followed by the reply carrying backend i's
\* hardware identity.
C4_ForwardRuleFields ==
  [][(ArpRequestSeen(event') /\ event'.protodst = virtualIP
        /\ event'.protosrc \notin Elems(clientIPs) /\ flowTable # NoConn)
       => /\ Len(out') = 2
          /\ out'[1].conn = flowTable /\ out'[2].conn = flowTable
          /\ IsForwardRuleFor(out'[1].m, event'.port, nextServerIndex)
          /\ IsReplyTo(out'[2].m, event', virtualIP,
                       serverMACs[nextServerIndex + 1])]_vars

\* a second client was just registered on port 2 and got backend 1, port 6
C4_Witness ==
  /\ ArpRequestSeen(event) /\ event.protodst = virtualIP /\ event.port = 2
  /\ Len(out) = 2 /\ out[1].m.msg = "flow_mod"
  /\ out[1].m.actions[2].port = 6
  /\ clientIPs[Len(clientIPs)] = event.protosrc

\* C5: a request on port p for a registered client address sends exactly one
\* rule {IPv4 ICMP, in_port p, src requester, dst client} -> [set src to the
\* virtual address, output registry position (1-indexed)] and then one reply
\* from the client's address and recorded hardware identity to the requester
\* out of port p.
C5_ReverseDirection ==
  [][(ArpRequestSeen(event') /\ event'.protodst # virtualIP
        /\ event'.protodst \in Elems(clientIPs))
       => LET k == ListIndex(clientIPs, event'.protodst) + 1
          IN  /\ Len(out') = 2
              /\ out'[1].m.msg = "flow_mod" /\ out'[1].m.command = "ADD"
              /\ out'[1].m.match =
                   [dl_type |-> 2048, nw_proto |-> 1,
                    in_port |-> event'.port, nw_src |-> event'.protosrc,
                    nw_dst |-> event'.protodst]
              /\ out'[1].m.actions =
                   <<[act |-> "set_nw_src", addr |-> IPAddr(10),
                      port |-> NoPort],
                     [act |-> "output", addr |-> None, port |-> k]>>
              /\ IsReplyTo(out'[2].m, event', event'.protodst,
                           clientMACs[k])]_vars

\* C6: a request for the virtual address or for a registered client that is
\* handled while no switch is attached is discarded: the handler does not
\* fail, nothing is sent, registry and cursor stay as they were.
C6_NoLinkDiscard ==
  [][(ArpRequestSeen(event') /\ flowTable = NoConn
        /\ (event'.protodst = virtualIP
              \/ event'.protodst \in Elems(clientIPs)))
       => /\ ~raised' /\ out' = <<>>
          /\ UNCHANGED <<clientIPs, clientMACs, nextServerIndex>>]_vars

\* C7: a ConnectionUp event sends exactly one delete-all command, on the new
\* connection, and leaves registry and cursor alone; the first message of
\* every connection is that delete-all command.
C7_LinkReset ==
  /\ [][event'.kind = "ConnectionUp"
          => /\ out' = <<[conn |-> event'.connection,
                          m |-> FlowMod("DELETE", NoMatch, <<>>)]>>
             /\ flowTable' = event'.connection
             /\ UNCHANGED <<clientIPs, clientMACs, nextServerIndex>>]_vars
  /\ [](flowTable # NoConn
          => linkHead = <<[conn |-> flowTable,
                           m |-> FlowMod("DELETE", NoMatch, <<>>)]>>)

\* a switch (re)connected while two clients were registered
C7_Witness ==
  /\ event.kind = "ConnectionUp" /\ Len(clientIPs) = 2
  /\ nextServerIndex = 0 /\ ~faulted /\ Len(out) = 1

\* C8: a packet event that is not an ARP request, or an ARP request for an
\* address that is neither the virtual address nor a registered client,
\* sends nothing and leaves registry and cursor alone.
C8_IgnoredTraffic ==
  [][(event'.kind = "PacketIn"
        /\ (~(event'.type = ARP_TYPE /\ event'.opcode = REQUEST)
              \/ (event'.protodst # virtualIP
                    /\ event'.protodst \notin Elems(clientIPs))))
       => /\ out' = <<>> /\ ~raised'
          /\ UNCHANGED <<clientIPs, clientMACs, nextServerIndex>>]_vars

\* a backend asked for a host that never registered, with a client registered
\* and a switch attached, and nothing was sent
C8_Witness ==
  /\ ArpRequestSeen(event) /\ event.protosrc = serverIPs[1]
  /\ event.protodst \in HostAddrs \ Elems(clientIPs)
  /\ Len(clientIPs) >= 1 /\ flowTable # NoConn /\ out = <<>>

\* the registry positions holding address a
RegistrationsOf(a) == {k \in 1..Len(clientIPs) : clientIPs[k] = a}

\* C9: with handlers interleaved, once all of them have returned (and none
\* has failed), an address is still registered at most once, and the cursor
\* advanced at most once for it.
C9_AtomicRegistration ==
  (~faulted /\ \A t \in Threads : threads[t].pc = "idle") =>
    \A a \in HostAddrs :
      /\ Cardinality(RegistrationsOf(a)) <= 1
      /\ \A k \in RegistrationsOf(a) : advances[k] <= 1

\* C10: the registry never holds an address twice, and every step keeps the
\* records it held, at their positions.
C10_RegistryUnique ==
  /\ [](\A i, j \in 1..Len(clientIPs) :
          clientIPs[i] = clientIPs[j] => i = j)
  /\ [][/\ Len(clientIPs') >= Len(clientIPs)
        /\ SubSeq(clientIPs', 1, Len(clientIPs)) = clientIPs
        /\ SubSeq(clientMACs', 1, Len(clientMACs)) = clientMACs
        /\ Len(clientMACs') = Len(clientIPs')]_vars

\* a registered client asked for the virtual address again, with another
\* hardware identity, after a second client had registered
C10_Witness ==
  /\ ArpRequestSeen(event) /\ event.protodst = virtualIP
  /\ Len(clientIPs) = 2 /\ clientIPs[1] = event.protosrc
  /\ clientMACs[1] # event.hwsrc /\ Len(out) = 1

\* the positions of out holding a rule installation, and those holding a
\* packet emission
RulesIn(o)   == {i \in 1..Len(o) : o[i].m.msg = "flow_mod"}
RepliesIn(o) == {i \in 1..Len(o) : o[i].m.msg = "packet_out"}

\* C11: every ARP request for the virtual address handled with a switch
\* attached (in a run where no handler has failed), from a new or from a
\* registered client, sends one forward rule {IPv4 ICMP, in_port, dst
\* virtual} -> [set dst to the assigned backend, output its port].
C11_AlwaysInstallsRule ==
  [][(ArpRequestSeen(event') /\ event'.protodst = virtualIP
        /\ flowTable # NoConn /\ ~faulted')
       => LET k == ListIndex(clientIPs', event'.protosrc) + 1
          IN  /\ Cardinality(RulesIn(out')) = 1
              /\ IsForwardRuleFor(out'[1].m, event'.port, assigned'[k])]_vars

\* C11 as amended: an ARP request for the virtual address sends a forward
\* rule exactly when the requester is not yet registered and a connection is
\* set: then one rule, for the backend at the cursor; a registered client's
\* request, and a request handled without a connection, send no rule.
C11_RuleOnlyForNewClient ==
  [][(ArpRequestSeen(event') /\ event'.protodst = virtualIP)
       => IF event'.protosrc \notin Elems(clientIPs) /\ flowTable # NoConn
          THEN /\ Cardinality(RulesIn(out')) = 1
               /\ IsForwardRuleFor(out'[1].m, event'.port, nextServerIndex)
          ELSE RulesIn(out') = {}]_vars

\* the only registered client asked again on the other port and got a reply
\* and no rule
C11_Witness ==
  /\ ArpRequestSeen(event) /\ event.protodst = virtualIP
  /\ clientIPs = <<event.protosrc>> /\ assigned = <<0>>
  /\ flowTable # NoConn /\ event.port = 2
  /\ Len(out) = 1 /\ out[1].m.msg = "packet_out"

\* C12: every ARP request for the virtual address sends exactly one ARP
\* reply, out of the ingress port, and the requester is registered by then.
C12_AlwaysReplies ==
  [][(ArpRequestSeen(event') /\ event'.protodst = virtualIP)
       => /\ Cardinality(RepliesIn(out')) = 1
          /\ out'[Len(out')].m.msg = "packet_out"
          /\ out'[Len(out')].m.actions =
               <<[act |-> "output", addr |-> None, port |-> event'.port]>>
          /\ event'.protosrc \in Elems(clientIPs')
          /\ ~raised']_vars

\* C13: the cursor is in 0..N-1; an event that registers a client moves it
\* to (old + 1) mod N, and no other event changes it.
C13_CursorStep ==
  [][/\ nextServerIndex \in 0..(Len(serverMACs) - 1)
     /\ nextServerIndex' \in 0..(Len(serverMACs) - 1)
     /\ IF Len(clientIPs') > Len(clientIPs)
        THEN nextServerIndex' = (nextServerIndex + 1) % Len(serverMACs)
        ELSE nextServerIndex' = nextServerIndex]_vars

\* C14: a request for a registered client address leaves clientIPs,
\* clientMACs and the cursor as they were; the requester is not registered
\* by it.
C14_LookupReadsOnly ==
  [][(ArpRequestSeen(event') /\ event'.protodst # virtualIP
        /\ event'.protodst \in Elems(clientIPs))
       => /\ clientIPs' = clientIPs /\ clientMACs' = clientMACs
          /\ nextServerIndex' = nextServerIndex
          /\ (event'.protosrc \in Elems(clientIPs')
                <=> event'.protosrc \in Elems(clientIPs))]_vars

\* a backend asked for the second registered client and was answered; the
\* backend is not in the registry
C14_Witness ==
  /\ ArpRequestSeen(event) /\ event.protosrc = serverIPs[1]
  /\ Len(clientIPs) = 2 /\ clientIPs[2] = event.protodst
  /\ serverIPs[1] \notin Elems(clientIPs)
  /\ Len(out) = 2 /\ nextServerIndex = 0

\* C15: the cursor equals the number of registered clients modulo the number
\* of backends, and clientIPs and clientMACs have the same length.
C15_CursorCountsClients ==
  /\ nextServerIndex = Len(clientIPs) % Len(serverMACs)
  /\ Len(clientIPs) = Len(clientMACs)

\* C19: a packet event sends at most one rule and at most one reply, the
\* rule before the reply; an event that is not an ARP request, or whose
\* target is neither the virtual address nor a registered client, sends no
\* reply.
C19_RuleBeforeReply ==
  [][event'.kind = "PacketIn"
       => /\ Cardinality(RulesIn(out')) <= 1
          /\ Cardinality(RepliesIn(out')) <= 1
          /\ \A i \in RulesIn(out') :
               /\ RepliesIn(out') # {}
               /\ \A j \in RepliesIn(out') : i < j
          /\ (~(event'.type = ARP_TYPE /\ event'.opcode = REQUEST)
                \/ (event'.protodst # virtualIP
                      /\ event'.protodst \notin Elems(clientIPs)))
               => RepliesIn(out') = {}]_vars

\* a host asked for a registered client: the reverse rule, then the reply
C19_Witness ==
  /\ ArpRequestSeen(event) /\ event.protosrc \in HostAddrs
  /\ event.protodst \in Elems(clientIPs)
  /\ Len(out) = 2 /\ out[1].m.msg = "flow_mod"
  /\ out[1].m.actions[1].act = "set_nw_src"
  /\ out[2].m.msg = "packet_out"

\* the table entry of the forward rule for backend i on ingress port p
ForwardEntry(p, i) ==
  [match |-> [dl_type |-> 2048, nw_proto |-> 1, in_port |-> p,
              nw_src |-> None, nw_dst |-> IPAddr(10)],
   actions |-> <<[act |-> "set_nw_dst", addr |-> serverIPs[i + 1],
                  port |-> NoPort],
                 [act |-> "output", addr |-> None, port |-> i + 5]>>]

\* C16: once a client's request for the virtual address has been handled
\* (switch attached, no handler failed), its forward rule is in the rule
\* table of the switch; so a registered client that asks again after a link
\* re-establishment has its rule back.
C16_ForwardRulePresent ==
  [][(ArpRequestSeen(event') /\ event'.protodst = virtualIP
        /\ flowTable # NoConn /\ ~faulted')
       => LET k == ListIndex(clientIPs', event'.protosrc) + 1
          IN  ForwardEntry(regPort'[k], assigned'[k]) \in flowRules']_vars

\* C17: the reverse rule sent for a registered client (in a run where no
\* handler has failed) outputs to the port on which that client's
\* registering request came in.
C17_ReversePortIsClientPort ==
  [][(ArpRequestSeen(event') /\ event'.protodst # virtualIP
        /\ event'.protodst \in Elems(clientIPs) /\ ~faulted')
       => LET k == ListIndex(clientIPs, event'.protodst) + 1
          IN  out'[1].m.actions[2].port = regPort[k]]_vars

\* C18: (in a run where no handler has failed) no reverse rule in the table
\* (client index + 1) outputs to the port of a backend (backend index + 5).
C18_ClientPortNeverBackendPort ==
  ~faulted =>
    \A r \in flowRules :
      r.actions[1].act = "set_nw_src"
        => r.actions[2].port \notin {i + 5 : i \in 0..(Len(serverIPs) - 1)}

====
